---- MODULE Spec2Model ----
(***************************************************************************)
(* The credential/transport layer of aice-web-next: src/lib/mtls.ts        *)
(* (detectAlgorithm, buildState, initialize, getAgent, signContextJwt,     *)
(* reload) and src/lib/graphql/client.ts (getClient, graphqlRequest,       *)
(* resetClient).                                                           *)
(*                                                                         *)
(* The module runs on one JavaScript event loop.  Every action below is    *)
(* one synchronous run of code between two suspension points (await);      *)
(* runs of different calls interleave freely.  A call is a task; a         *)
(* graphqlRequest is a send that owns two tasks (its signContextJwt and    *)
(* its getAgent), started in the same synchronous run.                     *)
(***************************************************************************)
EXTENDS Integers, Sequences, FiniteSets, TLC

VARIABLES
    env,        \* process.env: variable name -> value ("" = not set)
    state,      \* mtls.ts `let state: MtlsState | null`
    client,     \* client.ts `let client: GraphQLClient | null` (its endpoint, "" = null)
    builds,     \* history: what every buildState() call read, in start order
    published,  \* history: the builds assigned to `state`, in assignment order
    closed,     \* the Agents on which close() has been called (by build number)
    task,       \* the getAgent / signContextJwt / reload calls
    send,       \* the graphqlRequest calls
    nEnv,       \* how many times the configuration was changed
    now         \* the clock, Math.floor(Date.now() / 1000)

vars == <<env, state, client, builds, published, closed, task, send, nEnv, now>>

----------------------------------------------------------------------------
(* Bounds of the model *)

MaxTasks == 3
MaxSends == 2
MaxEnvChanges == 1
MaxSignCalls == 2
MaxClock == 1

\* The calls the bounds keep: MaxTasks calls started one at a time, or two for
\* every send
Calls == 1..MaxTasks
Tasks == 1..(IF 2 * MaxSends > MaxTasks THEN 2 * MaxSends ELSE MaxTasks)
Sends == 1..MaxSends

NULL == [null |-> TRUE]

----------------------------------------------------------------------------
(* Files and configuration *)

EnvVars == {"MTLS_CERT_PATH", "MTLS_KEY_PATH", "MTLS_CA_PATH", "REVIEW_GRAPHQL_ENDPOINT"}

\* The PEM files on disk: path -> content.  Any other path does not exist.
FileStore ==
    [p \in {"/tmp/ec.crt", "/tmp/ec.key", "/tmp/rsa.crt", "/tmp/rsa.key", "/tmp/ca.pem"} |->
        CASE p = "/tmp/ec.crt"  -> "EC256_CERT"
          [] p = "/tmp/ec.key"  -> "EC256_KEY"
          [] p = "/tmp/rsa.crt" -> "RSA_CERT"
          [] p = "/tmp/rsa.key" -> "RSA_KEY"
          [] p = "/tmp/ca.pem"  -> "CA_CERT"]

\* new X509Certificate(certPem).publicKey
X509PublicKey(certPem) ==
    CASE certPem = "EC256_CERT" ->
            [asymmetricKeyType |-> "ec", modulusLength |-> 0, namedCurve |-> "prime256v1"]
      [] certPem = "RSA_CERT" ->
            [asymmetricKeyType |-> "rsa", modulusLength |-> 2048, namedCurve |-> ""]

\* The key a PKCS8 PEM holds
Pkcs8Key(keyPem) ==
    CASE keyPem = "EC256_KEY" -> [asymmetricKeyType |-> "ec", namedCurve |-> "prime256v1"]
      [] keyPem = "RSA_KEY"   -> [asymmetricKeyType |-> "rsa", namedCurve |-> ""]
      [] OTHER                -> [asymmetricKeyType |-> "none", namedCurve |-> ""]

\* The credential configurations the model moves between
CredEnvs ==
    { [MTLS_CERT_PATH |-> "/tmp/ec.crt",  MTLS_KEY_PATH |-> "/tmp/ec.key",  MTLS_CA_PATH |-> "/tmp/ca.pem"],
      [MTLS_CERT_PATH |-> "/tmp/rsa.crt", MTLS_KEY_PATH |-> "/tmp/rsa.key", MTLS_CA_PATH |-> "/tmp/ca.pem"],
      [MTLS_CERT_PATH |-> "",             MTLS_KEY_PATH |-> "/tmp/ec.key",  MTLS_CA_PATH |-> "/tmp/ca.pem"],
      [MTLS_CERT_PATH |-> "/tmp/ec.crt",  MTLS_KEY_PATH |-> "/tmp/rsa.key", MTLS_CA_PATH |-> "/tmp/ca.pem"] }

Endpoints == {"", "https://review-a/graphql", "https://review-b/graphql"}

WithCreds(e, c) ==
    [v \in EnvVars |-> IF v = "REVIEW_GRAPHQL_ENDPOINT" THEN e[v] ELSE c[v]]

----------------------------------------------------------------------------
(* mtls.ts: detectAlgorithm, readEnvPath, buildState *)

Ok(v)  == [ok |-> TRUE, val |-> v, err |-> ""]
Err(e) == [ok |-> FALSE, val |-> "", err |-> e]

\* Faulty variant of detectAlgorithm: the bounds of the RSA buckets are exclusive
detectAlgorithmExclusive(publicKey) ==
    IF publicKey.asymmetricKeyType = "rsa" THEN
        IF publicKey.modulusLength > 4096 THEN Ok("RS512")
        ELSE IF publicKey.modulusLength > 3072 THEN Ok("RS384")
        ELSE Ok("RS256")
    ELSE IF publicKey.asymmetricKeyType = "ec" THEN
        IF publicKey.namedCurve = "prime256v1" THEN Ok("ES256")
        ELSE IF publicKey.namedCurve = "secp384r1" THEN Ok("ES384")
        ELSE Err("Unsupported EC curve: " \o publicKey.namedCurve)
    ELSE Err("Unsupported key type: " \o publicKey.asymmetricKeyType)

\* Faulty variant of detectAlgorithm: any key that is not an RSA key is taken as
\* an EC key, any curve but P-256 as P-384
detectAlgorithmLenient(publicKey) ==
    IF publicKey.asymmetricKeyType = "rsa" THEN
        IF publicKey.modulusLength >= 4096 THEN Ok("RS512")
        ELSE IF publicKey.modulusLength >= 3072 THEN Ok("RS384")
        ELSE Ok("RS256")
    ELSE IF publicKey.namedCurve = "prime256v1" THEN Ok("ES256")
    ELSE Ok("ES384")

detectAlgorithm(publicKey) ==
    IF publicKey.asymmetricKeyType = "rsa" THEN
        IF publicKey.modulusLength >= 4096 THEN Ok("RS512")
        ELSE IF publicKey.modulusLength >= 3072 THEN Ok("RS384")
        ELSE Ok("RS256")
    ELSE IF publicKey.asymmetricKeyType = "ec" THEN
        IF publicKey.namedCurve = "prime256v1" THEN Ok("ES256")
        ELSE IF publicKey.namedCurve = "secp384r1" THEN Ok("ES384")
        ELSE Err("Unsupported EC curve: " \o publicKey.namedCurve)
    ELSE Err("Unsupported key type: " \o publicKey.asymmetricKeyType)

readFileSync(filePath) ==
    IF filePath \in DOMAIN FileStore THEN Ok(FileStore[filePath])
    ELSE Err("ENOENT: no such file " \o filePath)

\* Faulty variant of readEnvPath: the path is used without the check
readEnvPathUnchecked(e, envVar) == readFileSync(e[envVar])

readEnvPath(e, envVar) ==
    IF e[envVar] = "" THEN Err("Missing environment variable: " \o envVar)
    ELSE readFileSync(e[envVar])

\* jose importPKCS8(key, algorithm): the promise rejects unless the key fits the algorithm
importPKCS8(keyPem, algorithm) ==
    LET k == Pkcs8Key(keyPem) IN
    IF algorithm \in {"RS256", "RS384", "RS512"} THEN k.asymmetricKeyType = "rsa"
    ELSE IF algorithm = "ES256" THEN k.asymmetricKeyType = "ec" /\ k.namedCurve = "prime256v1"
    ELSE k.asymmetricKeyType = "ec" /\ k.namedCurve = "secp384r1"

\* Faulty variant of BuildRead: the key is read before the certificate
BuildReadKeyFirst(e) ==
    LET key == readEnvPath(e, "MTLS_KEY_PATH") IN
    IF ~key.ok THEN [ok |-> FALSE, err |-> key.err] ELSE
    LET cert == readEnvPath(e, "MTLS_CERT_PATH") IN
    IF ~cert.ok THEN [ok |-> FALSE, err |-> cert.err] ELSE
    LET ca == readEnvPath(e, "MTLS_CA_PATH") IN
    IF ~ca.ok THEN [ok |-> FALSE, err |-> ca.err] ELSE
    LET algorithm == detectAlgorithm(X509PublicKey(cert.val)) IN
    IF ~algorithm.ok THEN [ok |-> FALSE, err |-> algorithm.err] ELSE
    [ok |-> TRUE, err |-> "", cert |-> cert.val, key |-> key.val, ca |-> ca.val,
     algorithm |-> algorithm.val]

\* buildState() up to its await: the three reads and the detection, in source order
BuildRead(e) ==
    LET cert == readEnvPath(e, "MTLS_CERT_PATH") IN
    IF ~cert.ok THEN [ok |-> FALSE, err |-> cert.err] ELSE
    LET key == readEnvPath(e, "MTLS_KEY_PATH") IN
    IF ~key.ok THEN [ok |-> FALSE, err |-> key.err] ELSE
    LET ca == readEnvPath(e, "MTLS_CA_PATH") IN
    IF ~ca.ok THEN [ok |-> FALSE, err |-> ca.err] ELSE
    LET algorithm == detectAlgorithm(X509PublicKey(cert.val)) IN
    IF ~algorithm.ok THEN [ok |-> FALSE, err |-> algorithm.err] ELSE
    [ok |-> TRUE, err |-> "", cert |-> cert.val, key |-> key.val, ca |-> ca.val,
     algorithm |-> algorithm.val]

\* buildState() after its await: `new Agent({connect: {cert, key, ca}})` and the
\* returned object.  b is the number of the build; every object carries the
\* number of the build that made it.
BuiltState(b) ==
    [agent      |-> [build |-> b, cert |-> builds[b].cert, key |-> builds[b].key,
                     ca |-> builds[b].ca],
     privateKey |-> [build |-> b, pem |-> builds[b].key, algorithm |-> builds[b].algorithm],
     algorithm  |-> [build |-> b, alg |-> builds[b].algorithm]]

----------------------------------------------------------------------------
(* mtls.ts: the token of signContextJwt *)

\* The arguments signContextJwt is called with.  customerIds is undefined
\* (defined = FALSE) or an array, the empty one included.
Roles == {"admin", "Security Administrator"}

undefined == [defined |-> FALSE, ids |-> <<>>]

CustomerIds == {undefined, [defined |-> TRUE, ids |-> <<>>], [defined |-> TRUE, ids |-> <<42>>]}

Context(role, customerIds) == [role |-> role, customerIds |-> customerIds]

\* The lifetime "5m" in seconds
ExpirySeconds == 300

\* Faulty variant of setExpirationTime: the lifetime counted from the epoch
setExpirationTimeFromEpoch(at) == ExpirySeconds

\* jose setExpirationTime("5m"), evaluated at clock value `at`
setExpirationTime(at) == at + ExpirySeconds

\* Faulty variants of SignJWT: an empty array is dropped like undefined; the
\* claims carry an issue time; the claims carry an issuer
SignJWTTruthy(role, customerIds, at) ==
    IF customerIds.defined /\ customerIds.ids # <<>>
    THEN [role |-> role, customer_ids |-> customerIds.ids, exp |-> setExpirationTime(at)]
    ELSE [role |-> role, exp |-> setExpirationTime(at)]

SignJWTWithIat(role, customerIds, at) ==
    IF customerIds.defined
    THEN [role |-> role, customer_ids |-> customerIds.ids, iat |-> at,
          exp |-> setExpirationTime(at)]
    ELSE [role |-> role, iat |-> at, exp |-> setExpirationTime(at)]

SignJWTWithIssuer(role, customerIds, at) ==
    IF customerIds.defined
    THEN [role |-> role, customer_ids |-> customerIds.ids, iss |-> "aice-web",
          exp |-> setExpirationTime(at)]
    ELSE [role |-> role, iss |-> "aice-web", exp |-> setExpirationTime(at)]

\* `new SignJWT({role, ...(customerIds !== undefined && {customer_ids:
\* customerIds})}).setExpirationTime("5m")` run at clock value `at`: the claims
SignJWT(role, customerIds, at) ==
    IF customerIds.defined
    THEN [role |-> role, customer_ids |-> customerIds.ids, exp |-> setExpirationTime(at)]
    ELSE [role |-> role, exp |-> setExpirationTime(at)]

\* Faulty variant of setProtectedHeader: a fixed algorithm
setProtectedHeaderES256(current) == [alg |-> "ES256"]

\* `.setProtectedHeader({alg: current.algorithm})`
setProtectedHeader(current) == [alg |-> current.algorithm.alg]

\* The signature `.sign(privateKey)` makes under algorithm alg.  RS* (PKCS#1
\* v1.5) is a function of key and content; ES* (ECDSA) draws fresh randomness
\* rnd in every signing.
Signature(privateKey, alg, rnd) ==
    [pem   |-> privateKey.pem,
     nonce |-> IF alg \in {"ES256", "ES384"} THEN rnd ELSE 0]

\* The compact token: header, claims and signature
Token(current, claims, rnd) ==
    LET header == setProtectedHeader(current) IN
    [header |-> header, payload |-> claims,
     signature |-> Signature(current.privateKey, header.alg, rnd)]

\* The private key a client certificate was issued for
KeyOfCert(certPem) ==
    CASE certPem = "EC256_CERT" -> "EC256_KEY"
      [] certPem = "RSA_CERT"   -> "RSA_KEY"

\* The backend's check of a token against the peer certificate: importSPKI of
\* the certificate's public key under its algorithm, then jwtVerify
jwtVerify(token, certPem) ==
    /\ token.header.alg = detectAlgorithm(X509PublicKey(certPem)).val
    /\ token.signature.pem = KeyOfCert(certPem)

----------------------------------------------------------------------------
(* mtls.ts: initialize, getAgent, signContextJwt, reload *)

\* Faulty variants of Publish: only the Agent is replaced; the first generation is kept
PublishAgentOnly(cur, built) ==
    IF cur = NULL THEN built ELSE [cur EXCEPT !.agent = built.agent]

PublishIfEmpty(cur, built) ==
    IF cur = NULL THEN built ELSE cur

\* `state = await buildState()`: what the module variable holds after the assignment
Publish(cur, built) == built

\* Faulty variants of StateOnBuildFailure: the state is dropped; the Agent of the
\* failed build is recorded without a signing key
StateClearedOnFailure(cur, b) == NULL

StatePartialOnFailure(cur, b) ==
    [BuiltState(b) EXCEPT !.privateKey = [build |-> 0, pem |-> "", algorithm |-> ""]]

\* `state = await buildState()` when build b rejects: the assignment never runs
StateOnBuildFailure(cur, b) == cur

\* Faulty variant of AgentToClose: the Agent just published is closed
AgentToCloseCurrent(previous, current) == current.agent

\* reload(): the Agent that `previous.agent.close()` closes
AgentToClose(previous, current) == previous.agent

\* undici Dispatcher.close(): graceful, the requests enqueued on the Agent stay
AgentClose(sends, a) == sends

\* undici Dispatcher.close(): its promise resolves once no request is left on the Agent
CloseResolved(a) ==
    ~ \E s \in Sends : send[s].pc = "inflight" /\ send[s].agent = a

\* Faulty variant of ReloadMayReturn: close() is not awaited
ReloadReturnsAtOnce(a) == TRUE

\* reload(): `await previous.agent.close()` before `return state.agent`
ReloadMayReturn(a) == CloseResolved(a)

----------------------------------------------------------------------------
(* Tasks *)

NoTask ==
    [op |-> "none", pc |-> "free", parent |-> 0, build |-> 0, previous |-> NULL,
     current |-> NULL, result |-> NULL, err |-> "", before |-> {},
     args |-> NULL, calledAt |-> 0, jwt |-> NULL]

Finished(t) == task[t].pc \in {"done", "failed"}

FinishedTasks == {t \in Tasks : Finished(t)}

FreeTasks == {t \in Calls : task[t].pc = "free"}

\* Tasks are taken in start order
NextFree == CHOOSE t \in FreeTasks : \A u \in FreeTasks : t <= u

\* Faulty variant of Begin: every call builds, whether a generation is
\* published or not
BeginAlwaysBuilds(op, args, parent, nb) ==
    LET base == [NoTask EXCEPT !.op = op, !.parent = parent, !.before = FinishedTasks,
                               !.args = args, !.calledAt = now]
        r == BuildRead(env)
        b0 == IF op = "reload" THEN [base EXCEPT !.previous = state] ELSE base
    IN
    IF r.ok THEN [b0 EXCEPT !.pc = "importing", !.build = nb + 1]
    ELSE [b0 EXCEPT !.pc = "failed", !.err = r.err]

\* What the call `op` with arguments args does in its first synchronous run,
\* given that nb builds have been started before it
Begin(op, args, parent, nb) ==
    LET base == [NoTask EXCEPT !.op = op, !.parent = parent, !.before = FinishedTasks,
                               !.args = args, !.calledAt = now]
        r == BuildRead(env)
    IN
    IF op # "reload" /\ state # NULL THEN
        \* `const current = state ?? ...`
        IF op = "getAgent"
        THEN [base EXCEPT !.pc = "done", !.current = state, !.result = state.agent]
        ELSE [base EXCEPT !.pc = "signing", !.current = state,
                          !.jwt = SignJWT(args.role, args.customerIds, now)]
    ELSE
        \* `const previous = state` (reload), then buildState() up to its await
        LET b0 == IF op = "reload" THEN [base EXCEPT !.previous = state] ELSE base IN
        IF r.ok THEN [b0 EXCEPT !.pc = "importing", !.build = nb + 1]
        ELSE [b0 EXCEPT !.pc = "failed", !.err = r.err]

\* The builds history after a task began
BuildsAfter(t, bs) ==
    IF t.pc = "importing" THEN Append(bs, BuildRead(env)) ELSE bs

Start(op, args) ==
    /\ LET t == NextFree
           new == Begin(op, args, 0, Len(builds))
       IN /\ task' = [task EXCEPT ![t] = new]
          /\ builds' = BuildsAfter(new, builds)
    /\ UNCHANGED <<env, state, client, published, closed, send, nEnv, now>>

StartGetAgent ==
    /\ FreeTasks # {}
    /\ Start("getAgent", NULL)

StartSign ==
    /\ FreeTasks # {}
    /\ Start("sign", Context("admin", undefined))

\* signContextJwt(role, customerIds) with any arguments
StartSignWith ==
    /\ FreeTasks # {}
    /\ Cardinality({t \in Tasks : task[t].op = "sign"}) < MaxSignCalls
    /\ \E role \in Roles, customerIds \in CustomerIds :
          Start("sign", Context(role, customerIds))

StartReload ==
    /\ FreeTasks # {}
    /\ Start("reload", NULL)

\* The awaited buildState() of task t settles: importPKCS8 rejects, or the Agent
\* is made, the state is assigned and the caller continues to its next await.
FinishBuild(t) ==
    /\ task[t].pc = "importing"
    /\ LET b == task[t].build
           op == task[t].op
       IN
       IF ~importPKCS8(builds[b].key, builds[b].algorithm) THEN
          /\ task' = [task EXCEPT ![t].pc = "failed",
                                  ![t].err = "importPKCS8 failed"]
          /\ state' = StateOnBuildFailure(state, b)
          /\ UNCHANGED <<published, closed, send>>
       ELSE
          LET next == Publish(state, BuiltState(b)) IN
          /\ state' = next
          /\ published' = Append(published, b)
          /\ IF op = "getAgent" THEN
                /\ task' = [task EXCEPT ![t].pc = "done", ![t].current = next,
                                        ![t].result = next.agent]
                /\ UNCHANGED <<closed, send>>
             ELSE IF op = "sign" THEN
                /\ task' = [task EXCEPT ![t].pc = "signing", ![t].current = next,
                                        ![t].jwt = SignJWT(task[t].args.role,
                                                           task[t].args.customerIds, now)]
                /\ UNCHANGED <<closed, send>>
             ELSE IF task[t].previous # NULL THEN
                LET a == AgentToClose(task[t].previous, next) IN
                /\ closed' = closed \cup {a.build}
                /\ send' = AgentClose(send, a)
                /\ task' = [task EXCEPT ![t].pc = "closing", ![t].current = next]
             ELSE
                /\ task' = [task EXCEPT ![t].pc = "done", ![t].current = next,
                                        ![t].result = next.agent]
                /\ UNCHANGED <<closed, send>>
    /\ UNCHANGED <<env, client, builds, nEnv, now>>

\* signContextJwt: `.sign(current.privateKey)` resolves
SignDone(t) ==
    /\ task[t].pc = "signing"
    /\ task' = [task EXCEPT ![t].pc = "done",
                            ![t].result = [token |-> Token(task[t].current, task[t].jwt, t),
                                           key   |-> task[t].current.privateKey]]
    /\ UNCHANGED <<env, state, client, builds, published, closed, send, nEnv, now>>

\* reload: `await previous.agent.close()` resolves; `return state.agent`
CloseDone(t) ==
    /\ task[t].pc = "closing"
    /\ ReloadMayReturn(task[t].previous.agent)
    /\ task' = [task EXCEPT ![t].pc = "done", ![t].result = state.agent]
    /\ UNCHANGED <<env, state, client, builds, published, closed, send, nEnv, now>>

----------------------------------------------------------------------------
(* client.ts: graphqlRequest, getClient, resetClient *)

NoSend ==
    [pc |-> "free", signTask |-> 0, agentTask |-> 0, token |-> NULL, agent |-> NULL,
     url |-> "", err |-> "", document |-> "", variables |-> NULL, context |-> NULL,
     request |-> NULL, fetches |-> 0, configured |-> ""]

\* The arguments graphqlRequest is called with.  variables is undefined (NULL)
\* or an object; context.customerIds may be omitted.
SendArgs ==
    { [document  |-> "query { hello }",
       variables |-> NULL,
       context   |-> Context("admin", undefined)],
      [document  |-> "query ($id: ID!) { node(id: $id) { id } }",
       variables |-> [id |-> "123"],
       context   |-> Context("Security Administrator", [defined |-> TRUE, ids |-> <<42>>])] }

\* Faulty variant of Authorization: the token without the scheme
AuthorizationBare(token) == <<"", token>>

\* `Bearer ${token}`
Authorization(token) == <<"Bearer ", token>>

\* The HTTP request gqlClient.request makes of its options: POST to the
\* client's endpoint, the document and the variables in the body, the request
\* headers, sent through fetch with the dispatcher of createFetchWithMtls
HttpRequest(url, document, variables, token, agent) ==
    [url        |-> url,
     body       |-> [query |-> document, variables |-> variables],
     headers    |-> [Authorization |-> Authorization(token)],
     dispatcher |-> agent]

\* Faulty variants of getClient: the endpoint is read on every call; a new
\* client is always bound to one fixed endpoint
getClientAlwaysReads(cur, e) == e["REVIEW_GRAPHQL_ENDPOINT"]

getClientFixed(cur, e) ==
    IF cur # "" THEN cur
    ELSE IF e["REVIEW_GRAPHQL_ENDPOINT"] = "" THEN ""
    ELSE "https://review-a/graphql"

\* Faulty variant of getClient: a default endpoint instead of the error
getClientWithDefault(cur, e) ==
    IF cur # "" THEN cur
    ELSE IF e["REVIEW_GRAPHQL_ENDPOINT"] = "" THEN "https://review-a/graphql"
    ELSE e["REVIEW_GRAPHQL_ENDPOINT"]

\* getClient(): the endpoint of the client it returns, "" when it throws
getClient(cur, e) ==
    IF cur # "" THEN cur ELSE e["REVIEW_GRAPHQL_ENDPOINT"]

\* graphqlRequest up to `await Promise.all([...])`: signContextJwt(...) and
\* getAgent() are both called before anything is awaited
\* Faulty variant of SendBegin: the client is resolved first, and a send that
\* finds no endpoint fails before it asks for its credentials
SendBeginClientFirst(s, t1, t2, document, variables, context) ==
    IF getClient(client, env) = "" THEN
        /\ send' = [send EXCEPT ![s] =
                       [NoSend EXCEPT !.pc = "failed",
                                      !.err = "Missing environment variable: REVIEW_GRAPHQL_ENDPOINT",
                                      !.document = document, !.variables = variables,
                                      !.context = context]]
        /\ UNCHANGED <<env, state, client, builds, published, closed, task, nEnv, now>>
    ELSE
        /\ LET sg == Begin("sign", Context(context.role, context.customerIds), s, Len(builds))
               b1 == BuildsAfter(sg, builds)
               ag == Begin("getAgent", NULL, s, Len(b1))
           IN /\ task' = [task EXCEPT ![t1] = sg, ![t2] = ag]
              /\ builds' = BuildsAfter(ag, b1)
              /\ send' = [send EXCEPT ![s] = [NoSend EXCEPT !.pc = "awaiting",
                                                            !.signTask = t1, !.agentTask = t2,
                                                            !.document = document,
                                                            !.variables = variables,
                                                            !.context = context]]
        /\ UNCHANGED <<env, state, client, published, closed, nEnv, now>>

SendBegin(s, t1, t2, document, variables, context) ==
    /\ LET sg == Begin("sign", Context(context.role, context.customerIds), s, Len(builds))
           b1 == BuildsAfter(sg, builds)
           ag == Begin("getAgent", NULL, s, Len(b1))
       IN /\ task' = [task EXCEPT ![t1] = sg, ![t2] = ag]
          /\ builds' = BuildsAfter(ag, b1)
          /\ send' = [send EXCEPT ![s] = [NoSend EXCEPT !.pc = "awaiting",
                                                        !.signTask = t1, !.agentTask = t2,
                                                        !.document = document,
                                                        !.variables = variables,
                                                        !.context = context]]
    /\ UNCHANGED <<env, state, client, published, closed, nEnv, now>>

\* graphqlRequest("query { hello }", undefined, {role: "admin"})
StartSend(s) ==
    /\ send[s].pc = "free"
    /\ \A u \in Sends : u < s => send[u].pc # "free"
    /\ Cardinality(FreeTasks) >= 2
    /\ LET t1 == NextFree
           t2 == CHOOSE t \in FreeTasks \ {t1} : \A u \in FreeTasks \ {t1} : t <= u
       IN SendBegin(s, t1, t2, "query { hello }", NULL, Context("admin", undefined))

\* One reload() call beside the calls of Calls: it is recorded in the slot after
\* them
StartReloadBeside ==
    /\ MaxTasks + 1 \in Tasks
    /\ task[MaxTasks + 1].pc = "free"
    /\ LET new == Begin("reload", NULL, 0, Len(builds))
       IN /\ task' = [task EXCEPT ![MaxTasks + 1] = new]
          /\ builds' = BuildsAfter(new, builds)
    /\ UNCHANGED <<env, state, client, published, closed, send, nEnv, now>>

\* graphqlRequest(document, variables, context) with any arguments; the two
\* calls of send s are tasks 2s - 1 and 2s.  These sends overlap each other
\* once a generation is published; a send that finds none is not joined by
\* another one while it waits for its credentials.
StartSendWith(s) ==
    /\ send[s].pc = "free"
    /\ \A u \in Sends : u < s => send[u].pc # "free"
    /\ task[2 * s - 1].pc = "free" /\ task[2 * s].pc = "free"
    /\ state = NULL => \A u \in Sends : send[u].pc # "awaiting"
    /\ \E a \in SendArgs :
          SendBegin(s, 2 * s - 1, 2 * s, a.document, a.variables, a.context)

\* Promise.all rejects as soon as one of the two calls rejects
SendReject(s) ==
    /\ send[s].pc = "awaiting"
    /\ \E t \in {send[s].signTask, send[s].agentTask} :
          /\ task[t].pc = "failed"
          /\ send' = [send EXCEPT ![s].pc = "failed", ![s].err = task[t].err]
    /\ UNCHANGED <<env, state, client, builds, published, closed, task, nEnv, now>>

\* Faulty variant of SendToken: the token of the first send is kept for the
\* sends after it
SendTokenCached(s) ==
    IF send[1].token # NULL THEN send[1].token ELSE task[send[s].signTask].result

\* `const [token, agent] = await Promise.all([...])`: the token of send s
SendToken(s) == task[send[s].signTask].result

\* Faulty variant of SendAgent: the transport is asked for after the token has
\* arrived
SendAgentAtJoin(s) == IF state # NULL THEN state.agent ELSE task[send[s].agentTask].result

\* `const [token, agent] = await Promise.all([...])`: the transport of send s
SendAgent(s) == task[send[s].agentTask].result

\* Promise.all resolves; getClient(); gqlClient.request(...) is called
SendJoin(s) ==
    /\ send[s].pc = "awaiting"
    /\ task[send[s].signTask].pc = "done"
    /\ task[send[s].agentTask].pc = "done"
    /\ LET url == getClient(client, env) IN
       IF url = "" THEN
          /\ send' = [send EXCEPT ![s].pc = "failed",
                        ![s].err = "Missing environment variable: REVIEW_GRAPHQL_ENDPOINT",
                        ![s].configured = env["REVIEW_GRAPHQL_ENDPOINT"]]
          /\ UNCHANGED client
       ELSE
          /\ client' = url
          /\ send' = [send EXCEPT ![s].pc = "requesting", ![s].url = url,
                                  ![s].token = SendToken(s),
                                  ![s].agent = SendAgent(s),
                                  ![s].configured = env["REVIEW_GRAPHQL_ENDPOINT"],
                                  ![s].request =
                                      HttpRequest(url, send[s].document, send[s].variables,
                                                  SendToken(s).token,
                                                  SendAgent(s))]
    /\ UNCHANGED <<env, state, builds, published, closed, task, nEnv, now>>

\* fetch(url, {dispatcher}) reaches the Agent: a closed Agent refuses the request
Dispatch(s) ==
    /\ send[s].pc = "requesting"
    /\ IF send[s].agent.build \in closed
       THEN send' = [send EXCEPT ![s].pc = "failed", ![s].err = "ClientClosedError",
                                 ![s].fetches = @ + 1]
       ELSE send' = [send EXCEPT ![s].pc = "inflight", ![s].fetches = @ + 1]
    /\ UNCHANGED <<env, state, client, builds, published, closed, task, nEnv, now>>

\* The backend answers
Complete(s) ==
    /\ send[s].pc = "inflight"
    /\ send' = [send EXCEPT ![s].pc = "done"]
    /\ UNCHANGED <<env, state, client, builds, published, closed, task, nEnv, now>>

\* Faulty variant of RequestFail: the request is made again
RequestFailRetry(s) ==
    /\ send[s].pc = "inflight"
    /\ send' = [send EXCEPT ![s].pc = "requesting"]
    /\ UNCHANGED <<env, state, client, builds, published, closed, task, nEnv, now>>

\* The connection or the backend fails
RequestFail(s) ==
    /\ send[s].pc = "inflight"
    /\ send' = [send EXCEPT ![s].pc = "failed", ![s].err = "fetch failed"]
    /\ UNCHANGED <<env, state, client, builds, published, closed, task, nEnv, now>>

\* Faulty variant of resetClient: the credentials are dropped with the client
resetClientAndState ==
    /\ client # ""
    /\ client' = ""
    /\ state' = NULL
    /\ UNCHANGED <<env, builds, published, closed, task, send, nEnv, now>>

resetClient ==
    /\ client # ""
    /\ client' = ""
    /\ UNCHANGED <<env, state, builds, published, closed, task, send, nEnv, now>>

----------------------------------------------------------------------------
(* The environment: the operator changes the configuration; time passes *)

Tick ==
    /\ now < MaxClock
    /\ now' = now + 1
    /\ UNCHANGED <<env, state, client, builds, published, closed, task, send, nEnv>>

SetCreds ==
    /\ nEnv < MaxEnvChanges
    /\ \E c \in CredEnvs :
          /\ WithCreds(env, c) # env
          /\ env' = WithCreds(env, c)
    /\ nEnv' = nEnv + 1
    /\ UNCHANGED <<state, client, builds, published, closed, task, send, now>>

\* The values a path variable takes: not set, the path of the readable file, a
\* path at which no file exists
PathVars == {"MTLS_CERT_PATH", "MTLS_KEY_PATH", "MTLS_CA_PATH"}

PathChoices(v) ==
    CASE v = "MTLS_CERT_PATH" -> {"", "/tmp/ec.crt", "/nonexistent/cert.pem"}
      [] v = "MTLS_KEY_PATH"  -> {"", "/tmp/ec.key", "/nonexistent/key.pem"}
      [] v = "MTLS_CA_PATH"   -> {"", "/tmp/ca.pem", "/nonexistent/ca.pem"}

\* One path variable is set, changed or deleted
SetPath ==
    /\ nEnv < MaxEnvChanges
    /\ \E v \in PathVars :
          \E p \in PathChoices(v) :
             /\ p # env[v]
             /\ env' = [env EXCEPT ![v] = p]
    /\ nEnv' = nEnv + 1
    /\ UNCHANGED <<state, client, builds, published, closed, task, send, now>>

SetEndpoint ==
    /\ nEnv < MaxEnvChanges
    /\ \E u \in Endpoints :
          /\ u # env["REVIEW_GRAPHQL_ENDPOINT"]
          /\ env' = [env EXCEPT !["REVIEW_GRAPHQL_ENDPOINT"] = u]
    /\ nEnv' = nEnv + 1
    /\ UNCHANGED <<state, client, builds, published, closed, task, send, now>>

----------------------------------------------------------------------------

Init ==
    /\ env \in {e \in [EnvVars -> {""} \cup DOMAIN FileStore \cup Endpoints] :
                  /\ \E c \in CredEnvs : WithCreds(e, c) = e
                  /\ e["REVIEW_GRAPHQL_ENDPOINT"] \in Endpoints}
    /\ state = NULL
    /\ client = ""
    /\ builds = <<>>
    /\ published = <<>>
    /\ closed = {}
    /\ task = [t \in Tasks |-> NoTask]
    /\ send = [s \in Sends |-> NoSend]
    /\ nEnv = 0
    /\ now = 0

Next ==
    \/ StartGetAgent
    \/ StartSign
    \/ StartReload
    \/ \E t \in Tasks : FinishBuild(t)
    \/ \E t \in Tasks : SignDone(t)
    \/ \E t \in Tasks : CloseDone(t)
    \/ \E s \in Sends : StartSend(s)
    \/ \E s \in Sends : SendReject(s)
    \/ \E s \in Sends : SendJoin(s)
    \/ \E s \in Sends : Dispatch(s)
    \/ \E s \in Sends : Complete(s)
    \/ \E s \in Sends : RequestFail(s)
    \/ resetClient
    \/ SetCreds
    \/ SetEndpoint
    \/ StartSignWith
    \/ Tick
    \/ SetPath
    \/ \E s \in Sends : StartSendWith(s)

Spec == Init /\ [][Next]_vars

\* mtls.ts on its own: every interleaving of getAgent, signContextJwt and reload
\* calls under a changing credential configuration.  A graphqlRequest adds to
\* these only a signContextJwt and a getAgent started in the same run, and
\* requests that delay the return of reload.
InitCred == Init /\ env["REVIEW_GRAPHQL_ENDPOINT"] = ""

NextCred ==
    \/ StartGetAgent
    \/ StartSign
    \/ StartReload
    \/ \E t \in Tasks : FinishBuild(t)
    \/ \E t \in Tasks : SignDone(t)
    \/ \E t \in Tasks : CloseDone(t)
    \/ SetCreds

SpecCred == InitCred /\ [][NextCred]_vars

\* graphqlRequest against reload: every interleaving of sends and reloads under
\* a changing configuration.
NextSend ==
    \/ StartReload
    \/ \E t \in Tasks : FinishBuild(t)
    \/ \E t \in Tasks : SignDone(t)
    \/ \E t \in Tasks : CloseDone(t)
    \/ \E s \in Sends : StartSend(s)
    \/ \E s \in Sends : SendReject(s)
    \/ \E s \in Sends : SendJoin(s)
    \/ \E s \in Sends : Dispatch(s)
    \/ \E s \in Sends : Complete(s)
    \/ \E s \in Sends : RequestFail(s)
    \/ resetClient
    \/ SetCreds
    \/ SetEndpoint

SpecSend == Init /\ [][NextSend]_vars

\* client.ts on its own: sends with every argument, one after another or
\* overlapping, resets of the client and changes of the endpoint.  The
\* credentials are readable and stay so: no credential call fails.
NextClient ==
    \/ \E s \in Sends : StartSendWith(s)
    \/ \E t \in Tasks : FinishBuild(t)
    \/ \E t \in Tasks : SignDone(t)
    \/ \E s \in Sends : SendJoin(s)
    \/ \E s \in Sends : Dispatch(s)
    \/ \E s \in Sends : Complete(s)
    \/ resetClient
    \/ SetEndpoint

InitClient ==
    /\ Init
    /\ env["MTLS_CERT_PATH"] = "/tmp/ec.crt" /\ env["MTLS_KEY_PATH"] = "/tmp/ec.key"
    /\ env["REVIEW_GRAPHQL_ENDPOINT"] \in {"", "https://review-a/graphql"}

SpecClient == InitClient /\ [][NextClient]_vars

\* The builds under every configuration of the three paths: each one not set,
\* readable or pointing at no file.
InitConfig ==
    /\ env \in {e \in [EnvVars -> {""} \cup UNION {PathChoices(v) : v \in PathVars}] :
                  /\ \A v \in PathVars : e[v] \in PathChoices(v)
                  /\ e["REVIEW_GRAPHQL_ENDPOINT"] = ""}
    /\ state = NULL
    /\ client = ""
    /\ builds = <<>>
    /\ published = <<>>
    /\ closed = {}
    /\ task = [t \in Tasks |-> NoTask]
    /\ send = [s \in Sends |-> NoSend]
    /\ nEnv = 0
    /\ now = 0

NextConfig ==
    \/ StartGetAgent
    \/ StartSign
    \/ StartReload
    \/ \E t \in Tasks : FinishBuild(t)
    \/ \E t \in Tasks : SignDone(t)
    \/ \E t \in Tasks : CloseDone(t)
    \/ SetPath

SpecConfig == InitConfig /\ [][NextConfig]_vars

\* signContextJwt on its own: calls with every argument, cold and warm, while
\* the clock advances.
NextSign ==
    \/ StartSignWith
    \/ \E t \in Tasks : FinishBuild(t)
    \/ \E t \in Tasks : SignDone(t)
    \/ Tick

SpecSign == InitCred /\ [][NextSign]_vars

\* detectAlgorithm on its own, applied to the public keys of certificates of
\* every kind.  `asymmetricKeyDetails?.modulusLength ?? 0` gives 0 when the
\* certificate carries no details.
ModulusLengths == {0, 1024, 2048, 3071, 3072, 3073, 4095, 4096, 4097, 8192}

NamedCurves == {"prime256v1", "secp384r1", "secp521r1", "secp256k1"}

OtherKeyTypes == {"ed25519", "rsa-pss", "dsa"}

PublicKeys ==
    {[asymmetricKeyType |-> "rsa", modulusLength |-> n, namedCurve |-> ""] :
        n \in ModulusLengths}
    \cup {[asymmetricKeyType |-> "ec", modulusLength |-> 0, namedCurve |-> c] :
        c \in NamedCurves}
    \cup {[asymmetricKeyType |-> k, modulusLength |-> 0, namedCurve |-> ""] :
        k \in OtherKeyTypes}

\* Faulty variant of CallDetectAlgorithm: the call reads the configuration
CallDetectAlgorithmReading(publicKey) ==
    /\ FreeTasks # {}
    /\ LET r == detectAlgorithm(publicKey)
           base == [NoTask EXCEPT !.op = "detectAlgorithm", !.args = publicKey,
                                  !.before = FinishedTasks, !.calledAt = now]
       IN task' = [task EXCEPT ![NextFree] =
                      IF r.ok THEN [base EXCEPT !.pc = "done", !.result = [alg |-> r.val]]
                      ELSE [base EXCEPT !.pc = "failed", !.err = r.err]]
    /\ builds' = Append(builds, BuildRead(env))
    /\ UNCHANGED <<env, state, client, published, closed, send, nEnv, now>>

\* A call detectAlgorithm(certPem) for a certificate with the given public key:
\* it returns the algorithm or throws
CallDetectAlgorithm(publicKey) ==
    /\ FreeTasks # {}
    /\ LET r == detectAlgorithm(publicKey)
           base == [NoTask EXCEPT !.op = "detectAlgorithm", !.args = publicKey,
                                  !.before = FinishedTasks, !.calledAt = now]
       IN task' = [task EXCEPT ![NextFree] =
                      IF r.ok THEN [base EXCEPT !.pc = "done", !.result = [alg |-> r.val]]
                      ELSE [base EXCEPT !.pc = "failed", !.err = r.err]]
    /\ UNCHANGED <<env, state, client, builds, published, closed, send, nEnv, now>>

NextDetect == \E publicKey \in PublicKeys : CallDetectAlgorithm(publicKey)

SpecDetect == InitCred /\ [][NextDetect]_vars

\* Sends with reload() calls before, during and after them, under one valid
\* configuration.
NextWarm ==
    \/ StartReload
    \/ StartReloadBeside
    \/ \E s \in Sends : StartSend(s)
    \/ \E t \in Tasks : FinishBuild(t)
    \/ \E t \in Tasks : SignDone(t)
    \/ \E t \in Tasks : CloseDone(t)
    \/ \E s \in Sends : SendJoin(s)
    \/ \E s \in Sends : Dispatch(s)
    \/ \E s \in Sends : Complete(s)

InitWarm == InitClient /\ env["REVIEW_GRAPHQL_ENDPOINT"] # ""

SpecWarm == InitWarm /\ [][NextWarm]_vars

\* Sends with the endpoint not configured at first, with the credentials
\* readable or the certificate path not configured.
InitGateway ==
    /\ Init
    /\ env["MTLS_KEY_PATH"] = "/tmp/ec.key"
    /\ env["MTLS_CERT_PATH"] \in {"", "/tmp/ec.crt"}
    /\ env["REVIEW_GRAPHQL_ENDPOINT"] = ""

NextGateway ==
    \/ \E s \in Sends : StartSendWith(s)
    \/ \E t \in Tasks : FinishBuild(t)
    \/ \E t \in Tasks : SignDone(t)
    \/ \E s \in Sends : SendReject(s)
    \/ \E s \in Sends : SendJoin(s)
    \/ \E s \in Sends : Dispatch(s)
    \/ \E s \in Sends : Complete(s)
    \/ SetEndpoint

SpecGateway == InitGateway /\ [][NextGateway]_vars

\* The module from its import on: detectAlgorithm on the two certificates of
\* the file store and the credential calls, in any order, under every
\* configuration of the three paths, which stays as it is.
CertKeys == {X509PublicKey(certPem) : certPem \in {"EC256_CERT", "RSA_CERT"}}

NextLazy ==
    \/ \E publicKey \in CertKeys : CallDetectAlgorithm(publicKey)
    \/ StartGetAgent
    \/ StartSign
    \/ StartReload
    \/ \E t \in Tasks : FinishBuild(t)
    \/ \E t \in Tasks : SignDone(t)
    \/ \E t \in Tasks : CloseDone(t)

SpecLazy == InitConfig /\ [][NextLazy]_vars

----------------------------------------------------------------------------
(* Helpers of the properties *)

Range(f) == {f[i] : i \in DOMAIN f}

Last(s) == s[Len(s)]

\* A generation all of whose parts were made by one build, from what it read
Whole(g) ==
    /\ g.agent.build \in 1..Len(builds)
    /\ g.privateKey.build = g.agent.build
    /\ g.algorithm.build = g.agent.build
    /\ g = BuiltState(g.agent.build)

\* Task t has been called
Called(t) == task[t].pc # "free"

\* Task u had returned or failed before task t was called
Before(u, t) == Called(t) /\ u \in task[t].before

\* Tasks t and u were running at the same time
Overlap(t, u) == Called(t) /\ Called(u) /\ t # u /\ ~Before(t, u) /\ ~Before(u, t)

ColdCall(t) == task[t].op \in {"getAgent", "sign"} /\ task[t].build # 0

(* Properties of mtls.ts, checked under SpecCred *)

\* Task t fails in this step
Fails(t) == task[t].pc # "failed" /\ task'[t].pc = "failed"

\* C1: a reload() that fails while a generation is published leaves that
\* generation the current one, publishes nothing and closes no transport, so
\* the transport of the current generation is still open.
C1_FailedReloadKeepsGeneration ==
    [][\A t \in Tasks :
          (Fails(t) /\ task'[t].op = "reload" /\ state # NULL) =>
              /\ state' = state
              /\ published' = published
              /\ closed' = closed
              /\ state'.agent.build \notin closed']_vars

\* A reload failed after its await while a generation was published, and a
\* getAgent() called afterwards returned the transport of that generation.
C1_Witness ==
    \E r, g \in Tasks :
        /\ task[r].op = "reload" /\ task[r].pc = "failed" /\ task[r].build # 0
        /\ task[r].previous # NULL
        /\ task[g].op = "getAgent" /\ task[g].pc = "done" /\ Before(r, g)
        /\ task[g].result = task[r].previous.agent
        /\ task[g].result.build \notin closed

\* C2: the published state is absent or one whole generation (transport, key and
\* algorithm of the same build, holding what that build read), and so is every
\* state a call has read.
C2_PublishedGenerationIsWhole ==
    /\ state # NULL => Whole(state)
    /\ \A t \in Tasks :
          /\ task[t].current # NULL => Whole(task[t].current)
          /\ task[t].previous # NULL => Whole(task[t].previous)

\* A generation replaced another one while a third build is still running.
C2_Witness ==
    /\ Len(published) >= 2
    /\ state # NULL /\ state.agent.cert # BuiltState(published[1]).agent.cert
    /\ \E t \in Tasks : task[t].pc = "importing"

\* C3: once a reload() has returned, a getAgent() called afterwards never gets a
\* transport of a build that read its configuration before that reload began.
C3_NoStaleTransportAfterReload ==
    \A r, g \in Tasks :
        ( /\ task[r].op = "reload" /\ task[r].pc = "done"
          /\ task[g].op = "getAgent" /\ task[g].pc = "done"
          /\ Before(r, g) )
        => task[g].result.build >= task[r].build

\* C4: a closed (or closing) transport is never the transport of the current
\* generation: reload() closes the previous transport only after the new
\* generation is published.
C4_CurrentTransportNeverClosed ==
    state # NULL => state.agent.build \notin closed

\* A reload has published its generation and closed the one it replaced.
C4_Witness ==
    \E t \in Tasks :
        /\ task[t].op = "reload" /\ task[t].pc \in {"closing", "done"}
        /\ task[t].previous # NULL
        /\ task[t].previous.agent.build \in closed
        /\ state = BuiltState(task[t].build)

\* C5: a first-use build that fails gives its caller the error and no result,
\* records nothing in the module state, and happens only when what the call read
\* cannot be built: a later call reads the configuration again and builds.
C5_FailedFirstUseRecordsNothing ==
    [][\A t \in Tasks :
          (Fails(t) /\ task'[t].op \in {"getAgent", "sign"}) =>
              /\ state' = state
              /\ published' = published
              /\ task'[t].err # "" /\ task'[t].result = NULL /\ task'[t].current = NULL
              /\ IF task[t].pc = "importing"
                 THEN ~importPKCS8(builds[task[t].build].key, builds[task[t].build].algorithm)
                 ELSE ~BuildRead(env).ok]_vars

\* A first use failed, the state stayed empty, the configuration was repaired and
\* the next call built and published the first generation.
C5_Witness ==
    \E f, g \in Tasks :
        /\ task[f].op \in {"getAgent", "sign"} /\ task[f].pc = "failed"
        /\ task[g].op \in {"getAgent", "sign"} /\ task[g].pc = "done"
        /\ Before(f, g) /\ task[g].build # 0
        /\ published = <<task[g].build>>
        /\ state = BuiltState(task[g].build)

\* C8: a first-use call that built continues with the whole generation it built
\* itself and has published it, and the current generation is the one published
\* last.
C8_RacingFirstUseLastPublishWins ==
    /\ \A t \in Tasks :
          (ColdCall(t) /\ task[t].pc \in {"signing", "done"}) =>
              /\ task[t].current = BuiltState(task[t].build)
              /\ Whole(task[t].current)
              /\ task[t].build \in Range(published)
              /\ (task[t].op = "getAgent" => task[t].result = BuiltState(task[t].build).agent)
              /\ (task[t].op = "sign" /\ task[t].pc = "done" =>
                    task[t].result.key = BuiltState(task[t].build).privateKey)
    /\ state # NULL => state = BuiltState(Last(published))
    /\ state = NULL => published = <<>>

\* Two first-use calls overlapped, both built and finished, and the one called
\* first published last: its generation is the current one.
C8_Witness ==
    \E t, u \in Tasks :
        /\ ColdCall(t) /\ ColdCall(u) /\ Overlap(t, u)
        /\ task[t].pc = "done" /\ task[u].pc = "done"
        /\ task[t].previous = NULL /\ task[u].previous = NULL
        /\ task[t].build < task[u].build
        /\ published = <<task[u].build, task[t].build>>
        /\ state = BuiltState(task[t].build)

\* No reload() was running at any time from the call of g1 to the return of g2
NoReloadBetween(g1, g2) ==
    \A r \in Tasks :
        (Called(r) /\ task[r].op = "reload") => (Before(r, g1) \/ Before(g2, r))

\* C10: of two getAgent() calls that succeed, do not overlap and have no reload()
\* between them, the later returns the same transport as the earlier.
C10_SequentialGetAgentSameHandle ==
    \A g1, g2 \in Tasks :
        ( /\ task[g1].op = "getAgent" /\ task[g1].pc = "done"
          /\ task[g2].op = "getAgent" /\ task[g2].pc = "done"
          /\ Before(g1, g2) /\ NoReloadBetween(g1, g2) )
        => task[g2].result = task[g1].result

(* Properties of graphqlRequest against reload, checked under SpecSend *)

\* C6: a send is never dispatched on a transport that reload() has closed (the
\* transport refuses it with ClientClosedError), and reload() aborts no request
\* in flight.
C6_NeverDispatchedOnClosedTransport ==
    \A s \in Sends :
        /\ send[s].err # "ClientClosedError"
        /\ send[s].err # "ClientDestroyedError"

\* C7 as stated: reload() does not wait for requests in flight, so a reload that
\* has closed the previous transport can return whatever is outstanding on it.
C7_ReloadNeverWaits ==
    \A t \in Tasks :
        task[t].pc = "closing" => ReloadMayReturn(task[t].previous.agent)

\* C7, amended: reload() cancels no request in flight, but it waits for them: a
\* reload() that closed the transport it replaced has returned only when no
\* request is in flight on that transport any more.
C7_ReloadWaitsWithoutCancelling ==
    /\ \A t \in Tasks :
          (task[t].op = "reload" /\ task[t].pc = "done" /\ task[t].previous # NULL) =>
              /\ task[t].previous.agent.build \in closed
              /\ ~ \E s \in Sends :
                    send[s].pc = "inflight" /\ send[s].agent = task[t].previous.agent
    /\ \A s \in Sends : send[s].err # "ClientDestroyedError"

\* A reload has published its generation and closed the previous transport, and
\* is held back by a request still in flight on that transport.
C7_Witness ==
    \E t \in Tasks, s \in Sends :
        /\ task[t].op = "reload" /\ task[t].pc = "closing"
        /\ state = BuiltState(task[t].build)
        /\ send[s].pc = "inflight" /\ send[s].agent = task[t].previous.agent

\* C9: the token and the transport of a send come from the same generation.
C9_TokenAndTransportSameGeneration ==
    \A s \in Sends :
        send[s].token # NULL => send[s].token.key.build = send[s].agent.build

(* Properties of mtls.ts, checked under SpecCred (continued) *)

\* No build other than that of task r was running while r was running
NoBuildOverlaps(r) ==
    \A c \in Tasks \ {r} :
        (Called(c) /\ task[c].build # 0) => (Before(c, r) \/ Before(r, c))

\* C11: when reload() is never called, all getAgent() calls that succeed return
\* the same transport, overlapping or not.
C11_NoReloadOneHandle ==
    (\A r \in Tasks : task[r].op # "reload") =>
        \A g1, g2 \in Tasks :
            ( /\ task[g1].op = "getAgent" /\ task[g1].pc = "done"
              /\ task[g2].op = "getAgent" /\ task[g2].pc = "done" )
            => task[g2].result = task[g1].result

\* C12: a reload() that no other build overlaps and that follows a getAgent()
\* returns a transport other than the one that getAgent() returned, the
\* transport of its own build, and every getAgent() called after it and before
\* any other reload() returns that same transport.
C12_ReloadSwitchesHandle ==
    \A r \in Tasks :
        (task[r].op = "reload" /\ task[r].pc = "done" /\ NoBuildOverlaps(r)) =>
            /\ task[r].result = BuiltState(task[r].build).agent
            /\ \A g1 \in Tasks :
                  (task[g1].op = "getAgent" /\ task[g1].pc = "done" /\ Before(g1, r))
                  => task[g1].result # task[r].result
            /\ \A g2 \in Tasks :
                  ( /\ task[g2].op = "getAgent" /\ task[g2].pc = "done" /\ Before(r, g2)
                    /\ \A r2 \in Tasks \ {r} :
                          (Called(r2) /\ task[r2].op = "reload")
                          => (Before(r2, r) \/ Before(g2, r2)) )
                  => task[g2].result = task[r].result

\* getAgent() returned h1, a reload() then returned h2, and a later getAgent()
\* returned h2.
C12_Witness ==
    \E g1, r, g2 \in Tasks :
        /\ task[g1].op = "getAgent" /\ task[g1].pc = "done"
        /\ task[r].op = "reload" /\ task[r].pc = "done" /\ Before(g1, r)
        /\ task[r].previous # NULL /\ task[r].previous.agent = task[g1].result
        /\ task[g2].op = "getAgent" /\ task[g2].pc = "done" /\ Before(r, g2)
        /\ task[g2].result = task[r].result
        /\ task[g2].result # task[g1].result

\* The tokens signContextJwt has returned
SignedTasks == {t \in Tasks : task[t].op = "sign" /\ task[t].pc = "done"}

\* C13: the alg in the header of every token is the algorithm detectAlgorithm
\* yields for the certificate that was read in the same build as the key that
\* signed the token.
C13_HeaderAlgOfSigningGeneration ==
    \A t \in SignedTasks :
        LET b == task[t].result.key.build IN
        /\ b \in DOMAIN builds
        /\ task[t].result.token.signature.pem = builds[b].key
        /\ task[t].result.token.header.alg
              = detectAlgorithm(X509PublicKey(builds[b].cert)).val

\* A token signed after a reload that switched from the EC certificate to the
\* RSA certificate
C13_Witness ==
    \E t \in SignedTasks, r \in Tasks :
        /\ task[r].op = "reload" /\ task[r].pc = "done" /\ Before(r, t)
        /\ task[r].previous # NULL /\ task[r].previous.algorithm.alg = "ES256"
        /\ task[t].result.key.build = task[r].build
        /\ task[t].result.token.header.alg = "RS256"

\* C14: a token of a signContextJwt() call started after a reload() returned is
\* signed with the key, and under the algorithm, of the configuration that
\* reload read or of a later one.
C14_SignsWithReloadedKey ==
    \A r \in Tasks, t \in SignedTasks :
        (task[r].op = "reload" /\ task[r].pc = "done" /\ Before(r, t)) =>
            \/ task[t].result.key.build >= task[r].build
            \/ /\ task[t].result.token.signature.pem = builds[task[r].build].key
               /\ task[t].result.token.header.alg = builds[task[r].build].algorithm

(* Properties of client.ts with mtls.ts, checked under SpecSend (continued) *)

ClientCerts == {"EC256_CERT", "RSA_CERT"}

\* C15: the token a send carries verifies against the client certificate of the
\* transport of that send, and against no other certificate; signed with any
\* other key it would not verify against that certificate.
C15_TokenVerifiesAgainstTransportCert ==
    \A s \in Sends :
        send[s].token # NULL =>
            LET token == send[s].token.token
                cert  == send[s].agent.cert
            IN /\ jwtVerify(token, cert)
               /\ \A c \in ClientCerts \ {cert} : ~jwtVerify(token, c)
               /\ \A k \in {KeyOfCert(c) : c \in ClientCerts} \ {token.signature.pem} :
                     ~jwtVerify([token EXCEPT !.signature.pem = k], cert)

\* A cold send answered by the backend whose token and transport were built by
\* different builds, while a reload published the other certificate
C15_Witness ==
    \E s \in Sends :
        /\ send[s].pc = "done"
        /\ send[s].token.key.build # send[s].agent.build
        /\ \E b \in Range(published) : builds[b].cert # send[s].agent.cert

(* Properties of the token of signContextJwt, checked under SpecSign *)

Payload(t) == task[t].result.token.payload

\* C16: the payload has the role given; it has customer_ids exactly when the
\* caller passed a defined customerIds, and then the array passed, so that []
\* gives customer_ids = [] and undefined gives no customer_ids.
C16_RoleAndCustomerIdsVerbatim ==
    \A t \in SignedTasks :
        /\ Payload(t).role = task[t].args.role
        /\ ("customer_ids" \in DOMAIN Payload(t)) <=> task[t].args.customerIds.defined
        /\ task[t].args.customerIds.defined
              => Payload(t).customer_ids = task[t].args.customerIds.ids

\* One token made from [] and one made from undefined, for the same role
C16_Witness ==
    \E t, u \in SignedTasks :
        /\ task[t].args.role = task[u].args.role
        /\ task[t].args.customerIds = [defined |-> TRUE, ids |-> <<>>]
        /\ Payload(t).customer_ids = <<>>
        /\ task[u].args.customerIds = undefined
        /\ "customer_ids" \notin DOMAIN Payload(u)

\* C17 as stated: exp is the time of the call plus 300 seconds.
C17_ExpIsCallTimePlus300 ==
    \A t \in SignedTasks : Payload(t).exp = task[t].calledAt + ExpirySeconds

\* C17: exp is the time at which the claims are built plus 300 seconds; the
\* claims are built in the run of the call when a generation is published, and
\* in the run in which the lazy initialization completes otherwise; the token
\* carries the exp of these claims.
C17_ExpIsClaimsTimePlus300 ==
    [][\A t \in Tasks :
          /\ (task[t].jwt = NULL /\ task'[t].jwt # NULL) =>
                /\ task'[t].jwt.exp = now + ExpirySeconds
                /\ IF task[t].pc = "free" THEN state # NULL /\ task'[t].calledAt = now
                   ELSE task[t].pc = "importing" /\ task[t].calledAt <= now
          /\ (task[t].pc = "signing" /\ task'[t].pc = "done") =>
                task'[t].result.token.payload.exp = task[t].jwt.exp
      ]_vars

\* A cold call whose initialization completed a second after the call
C17_Witness ==
    \E t \in SignedTasks :
        /\ task[t].build # 0
        /\ Payload(t).exp = task[t].calledAt + 1 + ExpirySeconds

C19_NoUnexpectedClaims ==
    \A t \in SignedTasks :
        DOMAIN Payload(t) \subseteq {"role", "customer_ids", "exp", "iat"}

\* A token made from a non-empty customerIds
C19_Witness ==
    \E t \in SignedTasks :
        /\ task[t].args.customerIds.ids = <<42>>
        /\ DOMAIN Payload(t) = {"role", "customer_ids", "exp"}

\* C20: two signContextJwt() calls with the same arguments never return the
\* same token.
C20_SameArgumentsDistinctTokens ==
    \A t, u \in SignedTasks :
        (t # u /\ task[t].args = task[u].args)
        => task[t].result.token # task[u].result.token

(* Properties of the builds, checked under SpecConfig *)

\* In configuration e exactly v is not set; the other two paths are readable
OnlyMissing(e, v) ==
    /\ e[v] = ""
    /\ \A w \in PathVars \ {v} : e[w] # "" /\ readFileSync(e[w]).ok

\* Task t is called in this step
CalledNow(t) == task[t].pc = "free" /\ task'[t].pc # "free"

\* C21: a reload() call, and a getAgent() or signContextJwt() call that finds
\* no published generation, made while exactly one of the three paths is not
\* set and the other two are readable, fails in the run of the call with the
\* missing-variable error that names that variable; it starts no build and
\* publishes nothing.
C21_MissingPathNamed ==
    [][\A t \in Tasks, v \in PathVars :
          ( /\ CalledNow(t)
            /\ OnlyMissing(env, v)
            /\ task'[t].op = "reload" \/ state = NULL )
          => /\ task'[t].pc = "failed"
             /\ task'[t].err = "Missing environment variable: " \o v
             /\ task'[t].build = 0
             /\ UNCHANGED <<state, builds, published, closed>>
      ]_vars

\* getAgent(), signContextJwt() and reload() have each failed on the missing
\* key path
C21_Witness ==
    /\ OnlyMissing(env, "MTLS_KEY_PATH")
    /\ \A op \in {"getAgent", "sign", "reload"} :
          \E t \in Tasks :
             /\ task[t].op = op /\ task[t].pc = "failed"
             /\ task[t].err = "Missing environment variable: MTLS_KEY_PATH"
    /\ published = <<>>

(* Properties of client.ts, checked under SpecSend (continued) *)

\* Both calls of send s have returned: Promise.all resolves
Joined(s) ==
    /\ send[s].pc = "awaiting"
    /\ task[send[s].signTask].pc = "done"
    /\ task[send[s].agentTask].pc = "done"

\* C22: with the endpoint not configured, no getAgent(), signContextJwt() or
\* reload() call fails for that reason; a send fails for that reason only in
\* the run in which its two credentials have arrived and no client is
\* memoized, with the error that names REVIEW_GRAPHQL_ENDPOINT, and then no
\* request is made and no client is memoized; in that run a send always fails
\* so.
C22_MissingEndpointOnlyAtSend ==
    [][/\ \A t \in Tasks :
             task'[t].err # "Missing environment variable: REVIEW_GRAPHQL_ENDPOINT"
       /\ \A s \in Sends :
             LET missing == client = "" /\ env["REVIEW_GRAPHQL_ENDPOINT"] = ""
                 failure == /\ send'[s].pc = "failed"
                            /\ send'[s].err
                                  = "Missing environment variable: REVIEW_GRAPHQL_ENDPOINT"
             IN
             /\ (send[s] # send'[s] /\ failure) =>
                   /\ Joined(s) /\ missing
                   /\ send'[s].url = "" /\ send'[s].token = NULL /\ send'[s].agent = NULL
                   /\ client' = ""
             /\ (send[s] # send'[s] /\ Joined(s) /\ missing) => failure
      ]_vars

\* A send has failed on the missing endpoint after its token and its transport
\* were obtained, and no client is memoized
C22_Witness ==
    \E s \in Sends :
        /\ send[s].pc = "failed"
        /\ send[s].err = "Missing environment variable: REVIEW_GRAPHQL_ENDPOINT"
        /\ task[send[s].signTask].pc = "done"
        /\ task[send[s].agentTask].pc = "done"
        /\ state # NULL
        /\ client = ""

(* Properties of client.ts, checked under SpecClient *)

\* The sends whose request has been made
Requested == {s \in Sends : send[s].request # NULL}

\* The calls send s has made
CallsOf(s, op) == {t \in Tasks : task[t].parent = s /\ task[t].op = op}

\* C23: the request of a send has as Authorization "Bearer " and the token that
\* the signContextJwt(context.role, context.customerIds) call of that send
\* returned, as connection layer the transport that the getAgent() call of that
\* send returned, and in its body the document and the variables given.
C23_RequestFromOwnCredentials ==
    \A s \in Requested :
        LET sg == send[s].signTask
            ag == send[s].agentTask
        IN /\ task[sg].parent = s /\ task[sg].op = "sign" /\ task[sg].pc = "done"
           /\ task[sg].args = Context(send[s].context.role, send[s].context.customerIds)
           /\ send[s].request.headers.Authorization = <<"Bearer ", task[sg].result.token>>
           /\ task[sg].result.token.payload.role = send[s].context.role
           /\ ("customer_ids" \in DOMAIN task[sg].result.token.payload)
                 <=> send[s].context.customerIds.defined
           /\ task[ag].parent = s /\ task[ag].op = "getAgent" /\ task[ag].pc = "done"
           /\ send[s].request.dispatcher = task[ag].result
           /\ send[s].request.body
                 = [query |-> send[s].document, variables |-> send[s].variables]

\* Two sends with different arguments have been answered; one omitted
\* customerIds and variables
C23_Witness ==
    \E s, u \in Sends :
        /\ send[s].pc = "done" /\ send[u].pc = "done"
        /\ send[s].context.customerIds = undefined /\ send[s].variables = NULL
        /\ send[u].context.customerIds.defined /\ send[u].variables # NULL
        /\ send[s].request.body # send[u].request.body

\* C24: a send that was called has made exactly one signContextJwt() call and
\* exactly one getAgent() call, and the Authorization of its request is the
\* token of its own call, which is the call of no other send.
C24_OneTokenOneLookupPerSend ==
    \A s \in Sends :
        IF send[s].pc = "free"
        THEN CallsOf(s, "sign") = {} /\ CallsOf(s, "getAgent") = {}
        ELSE /\ CallsOf(s, "sign") = {send[s].signTask}
             /\ CallsOf(s, "getAgent") = {send[s].agentTask}
             /\ \A u \in Sends \ {s} :
                   /\ send[u].signTask # send[s].signTask
                   /\ send[u].agentTask # send[s].agentTask
             /\ s \in Requested =>
                   /\ send[s].token = task[send[s].signTask].result
                   /\ send[s].request.headers.Authorization
                         = Authorization(send[s].token.token)

\* Two sends with the same arguments have been answered one after the other
C24_Witness ==
    \E s, u \in Sends :
        /\ s # u
        /\ send[s].pc = "done" /\ send[u].pc = "done"
        /\ send[s].context = send[u].context /\ send[s].document = send[u].document
        /\ Before(send[s].signTask, send[u].signTask)
        /\ Before(send[s].agentTask, send[u].agentTask)

\* Send s resolves the backend client and makes its request in this step
Resolves(s) == send[s].pc = "awaiting" /\ send'[s].pc = "requesting"

\* C25: while a client is memoized, every send that resolves the client targets
\* the endpoint of the memoized client, whatever the endpoint configuration is
\* by then, and leaves it memoized; a memoized client is only ever dropped as a
\* whole, by resetClient, never rebound.
C25_MemoizedClientKeepsEndpoint ==
    [][/\ \A s \in Sends :
             (Resolves(s) /\ client # "") =>
                 /\ send'[s].url = client
                 /\ send'[s].request.url = client
                 /\ client' = client
       /\ (client # "" /\ client' # client) => (client' = "" /\ send' = send)
      ]_vars

\* Two sends went to the first endpoint; when the second resolved the client
\* another endpoint was configured
C25_Witness ==
    \E s, u \in Sends :
        /\ send[s].url # "" /\ send[s].configured = send[s].url
        /\ send[u].pc = "done"
        /\ send[u].url = send[s].url
        /\ send[u].configured # send[u].url

\* C26: resetClient drops the memoized client and nothing else; a send that
\* resolves the client while none is memoized targets the endpoint configured
\* in that run and memoizes it, so the sends after it target it as well.
C26_ResetRereadsEndpoint ==
    [][/\ (client # "" /\ client' = "") =>
             UNCHANGED <<env, state, builds, published, closed, task, send, nEnv, now>>
       /\ \A s \in Sends :
             (Resolves(s) /\ client = "") =>
                 /\ env["REVIEW_GRAPHQL_ENDPOINT"] # ""
                 /\ send'[s].url = env["REVIEW_GRAPHQL_ENDPOINT"]
                 /\ send'[s].request.url = env["REVIEW_GRAPHQL_ENDPOINT"]
                 /\ client' = env["REVIEW_GRAPHQL_ENDPOINT"]
      ]_vars

\* A send went to the first endpoint; after a reset and a change of the
\* endpoint the next send went to the new endpoint, which is now memoized
C26_Witness ==
    \E s, u \in Sends :
        /\ send[s].pc = "done" /\ send[u].pc = "done"
        /\ Before(send[s].signTask, send[u].signTask)
        /\ send[s].url # "" /\ send[s].configured = send[s].url
        /\ send[u].url # send[s].url /\ send[u].configured = send[u].url
        /\ client = send[u].url

\* C27: a step that drops the memoized client leaves the published generation,
\* the builds, the closed transports and every credential call as they were;
\* a step that starts or finishes a build, publishes a generation or closes a
\* transport leaves the memoized client as it was.
C27_ResetAndCredentialsIndependent ==
    [][/\ (client # "" /\ client' = "") =>
             UNCHANGED <<state, builds, published, closed, task>>
       /\ (\/ state' # state
           \/ builds' # builds
           \/ published' # published
           \/ closed' # closed
           \/ task' # task) => client' = client
      ]_vars

\* A send was made, the credentials were reloaded and the client was reset: the
\* reloaded generation is still the current one
C27_Witness ==
    /\ \E s \in Sends : send[s].pc = "done" /\ send[s].url # ""
    /\ client = ""
    /\ \E t \in Tasks :
          /\ task[t].op = "reload" /\ task[t].pc = "done"
          /\ state # NULL /\ state.agent.build = task[t].build
          /\ Last(published) = task[t].build

\* The errors of the HTTP request of a send
RequestErrors == {"fetch failed", "ClientClosedError"}

\* The calls of send s that failed
FailedCalls(s) ==
    {t \in {send[s].signTask, send[s].agentTask} : task[t].pc = "failed"}

\* C28: a send makes at most one signContextJwt() call, one getAgent() call and
\* one HTTP request; a failed send carries the error of the step that failed:
\* the error of its failed credential call, and then it has made no request,
\* or the error of its one request; and a failed send stays failed with that
\* error, it starts nothing again.
C28_FailuresSurfaceWithoutRetry ==
    [][\A s \in Sends :
          /\ send'[s].fetches <= 1
          /\ Cardinality({t \in Tasks : task'[t].parent = s /\ task'[t].op = "sign"}) <= 1
          /\ Cardinality({t \in Tasks : task'[t].parent = s /\ task'[t].op = "getAgent"}) <= 1
          /\ (send[s].pc # "failed" /\ send'[s].pc = "failed") =>
                \/ /\ FailedCalls(s) # {}
                   /\ \E t \in FailedCalls(s) : send'[s].err = task[t].err
                   /\ send'[s].fetches = 0 /\ send'[s].request = NULL
                \/ /\ FailedCalls(s) = {}
                   /\ send[s].pc = "awaiting"
                   /\ send'[s].err = "Missing environment variable: REVIEW_GRAPHQL_ENDPOINT"
                   /\ send'[s].fetches = 0 /\ send'[s].request = NULL
                \/ /\ FailedCalls(s) = {}
                   /\ send[s].pc \in {"requesting", "inflight"}
                   /\ send'[s].err \in RequestErrors
                   /\ send'[s].fetches = 1
          /\ send[s].pc = "failed" =>
                /\ send'[s] = send[s]
                /\ \A t \in Tasks : task[t].parent = s <=> task'[t].parent = s
      ]_vars

\* The request of a send failed: the send failed with the error of the request
\* after its one request
C28_Witness ==
    \E s \in Sends :
        /\ send[s].pc = "failed"
        /\ send[s].err = "fetch failed"
        /\ send[s].fetches = 1
        /\ task[send[s].signTask].pc = "done"
        /\ task[send[s].agentTask].pc = "done"

\* A credential call of a send failed: the send failed with its error and no
\* request was made
C28_CredentialFailureReached ==
    \E s \in Sends :
        /\ send[s].pc = "failed"
        /\ FailedCalls(s) # {}
        /\ send[s].request = NULL

\* The detectAlgorithm calls made so far
Detected == {t \in Tasks : task[t].op = "detectAlgorithm"}

JwtAlgorithms == {"RS256", "RS384", "RS512", "ES256", "ES384"}

C30_EcAndUnsupported ==
    \A t \in Detected :
        LET k == task[t].args IN
        /\ \/ task[t].pc = "done" /\ task[t].result.alg \in JwtAlgorithms /\ task[t].err = ""
           \/ task[t].pc = "failed" /\ task[t].result = NULL /\ task[t].err # ""
        /\ k.asymmetricKeyType # "rsa" =>
              IF k.asymmetricKeyType = "ec" /\ k.namedCurve = "prime256v1"
              THEN task[t].pc = "done" /\ task[t].result = [alg |-> "ES256"]
              ELSE IF k.asymmetricKeyType = "ec" /\ k.namedCurve = "secp384r1"
              THEN task[t].pc = "done" /\ task[t].result = [alg |-> "ES384"]
              ELSE IF k.asymmetricKeyType = "ec"
              THEN /\ task[t].pc = "failed"
                   /\ task[t].err = "Unsupported EC curve: " \o k.namedCurve
              ELSE /\ task[t].pc = "failed"
                   /\ task[t].err = "Unsupported key type: " \o k.asymmetricKeyType

\* An EC key on P-384, an EC key on P-521 and an Ed25519 key
C30_Witness ==
    \E t, u, v \in Detected :
        /\ task[t].args.namedCurve = "secp384r1" /\ task[t].result = [alg |-> "ES384"]
        /\ task[u].args.namedCurve = "secp521r1" /\ task[u].pc = "failed"
        /\ task[u].err = "Unsupported EC curve: secp521r1"
        /\ task[v].args.asymmetricKeyType = "ed25519" /\ task[v].pc = "failed"
        /\ task[v].err = "Unsupported key type: ed25519"

\* The getAgent(), signContextJwt() and reload() calls made so far
CredentialCalls == {t \in Tasks : task[t].op \in {"getAgent", "sign", "reload"}}

\* Task t is called in this step, as a detectAlgorithm call
DetectsNow(t) == task[t].pc = "free" /\ task'[t].op = "detectAlgorithm"

WarmCall(t) ==
    /\ task[t].pc = "free"
    /\ task'[t].op \in {"getAgent", "sign"}
    /\ state # NULL

\* C32: a getAgent() or signContextJwt() call made while a generation is
\* published starts no build and does not fail, whatever the configuration is
\* by then: it takes the published generation, and neither its first run nor
\* the end of its signing changes the builds, the published generation, the
\* publications or the closed transports; while a generation is published a
\* build is started only by a reload() call.
C32_WarmCallsBuildNothing ==
    [][/\ \A t \in Tasks :
             WarmCall(t) =>
                /\ task'[t].pc = IF task'[t].op = "getAgent" THEN "done" ELSE "signing"
                /\ task'[t].build = 0
                /\ task'[t].current = state
                /\ task'[t].op = "getAgent" => task'[t].result = state.agent
                /\ UNCHANGED <<state, builds, published, closed>>
       /\ \A t \in Tasks :
             (task[t].pc = "signing" /\ task'[t].pc # "signing") =>
                /\ task'[t].pc = "done"
                /\ task'[t].result.key = task[t].current.privateKey
                /\ UNCHANGED <<state, builds, published, closed>>
       /\ (state # NULL /\ builds' # builds) =>
             \E t \in Tasks : task[t].pc = "free" /\ task'[t].op = "reload"
      ]_vars

\* One generation was built; the certificate path was then removed from the
\* configuration, and a getAgent() and a signContextJwt() call made after that
\* took the published generation without a build
C32_Witness ==
    \E t, u \in Tasks :
        /\ env["MTLS_CERT_PATH"] = ""
        /\ Len(builds) = 1 /\ published = <<1>>
        /\ task[t].op = "getAgent" /\ task[t].pc = "done" /\ task[t].build = 0
        /\ task[t].result = state.agent
        /\ task[u].op = "sign" /\ task[u].pc = "done" /\ task[u].build = 0
        /\ task[u].result.key = state.privateKey

\* Build b was published and another build was published after it
Superseded(b) ==
    \E i \in 1..Len(published) : published[i] = b /\ i < Len(published)

\* C33: every closed transport is the transport of a generation that was
\* published and superseded, never that of the current generation, even
\* with first-use initializations and reload() calls overlapping in any way;
\* and a getAgent() call that returns, returns the transport of the current
\* generation, which is not closed.
C33_ClosedTransportIsSuperseded ==
    [][/\ \A b \in closed' :
             /\ Superseded(b)'
             /\ state' # NULL /\ state'.agent.build # b
             /\ Last(published') # b
       /\ \A t \in Tasks :
             (task'[t].op = "getAgent" /\ task[t].pc # "done" /\ task'[t].pc = "done") =>
                /\ task'[t].result = state'.agent
                /\ task'[t].result.build \notin closed'
      ]_vars

\* Two overlapping reload() calls have both published and both closed the
\* transport that a first getAgent() call had built; the current transport is
\* the one published last and is open
C33_Witness ==
    \E g, r1, r2 \in Tasks :
        /\ task[g].op = "getAgent" /\ task[g].pc = "done"
        /\ task[r1].op = "reload" /\ task[r2].op = "reload"
        /\ Overlap(r1, r2)
        /\ task[r1].pc \in {"closing", "done"} /\ task[r2].pc \in {"closing", "done"}
        /\ task[r1].previous # NULL /\ task[r1].previous.agent = task[g].result
        /\ task[r2].previous # NULL /\ task[r2].previous.agent = task[g].result
        /\ task[g].result.build \in closed
        /\ state.agent.build = Last(published)
        /\ state.agent.build \notin closed

\* No initialization and no reload() call is running
Quiescent == \A t \in Tasks : task[t].pc \in {"free", "done", "failed"}

\* C34: once no initialization and no reload() call is running, the transport
\* of every published generation but the current one has been closed.
C34_SupersededTransportsClosed ==
    Quiescent => \A b \in Range(published) : Superseded(b) => b \in closed

\* Send s was started while a generation was published: its two calls took the
\* published generation and built nothing
WarmSend(s) ==
    /\ send[s].pc # "free"
    /\ task[send[s].signTask].build = 0 /\ task[send[s].signTask].current # NULL
    /\ task[send[s].agentTask].build = 0 /\ task[send[s].agentTask].current # NULL

\* C35: a send started while a generation is published starts with both calls
\* taking that generation, and whatever reload() calls do afterwards its
\* signing key and its transport are those of that one generation: so are the
\* token and the transport of its request.
C35_WarmSendOneGeneration ==
    [][\A s \in Sends :
          /\ (send[s].pc = "free" /\ send'[s].pc # "free" /\ state # NULL) =>
                /\ WarmSend(s)'
                /\ task'[send'[s].signTask].current = state
                /\ task'[send'[s].agentTask].result = state.agent
          /\ WarmSend(s)' =>
                LET sg == task'[send'[s].signTask]
                    ag == task'[send'[s].agentTask]
                IN /\ sg.current = ag.current
                   /\ ag.result = sg.current.agent
                   /\ sg.pc = "done" => sg.result.key = sg.current.privateKey
                   /\ send'[s].token # NULL =>
                         /\ send'[s].token.key.build = send'[s].agent.build
                         /\ send'[s].agent = sg.current.agent
                         /\ send'[s].request.dispatcher = sg.current.agent
      ]_vars

\* A send was started on a published generation; a reload() call overlapping
\* its signing has replaced that generation; the send has made its request
\* with the token and the transport of the generation it started on
C35_Witness ==
    \E s \in Sends, r \in Tasks :
        /\ WarmSend(s)
        /\ send[s].token # NULL
        /\ task[r].op = "reload" /\ task[r].pc \in {"closing", "done"}
        /\ Overlap(r, send[s].signTask)
        /\ task[r].previous # NULL /\ task[r].previous.agent = send[s].agent
        /\ state.agent.build = task[r].build
        /\ send[s].token.key.build = send[s].agent.build
        /\ state.agent.build # send[s].agent.build

\* The three inputs of a build in the order certificate, key, CA
InputOrder == <<"MTLS_CERT_PATH", "MTLS_KEY_PATH", "MTLS_CA_PATH">>

\* Input v cannot be read under configuration e: it is not configured or no
\* file is at its path
Unreadable(e, v) == e[v] = "" \/ e[v] \notin DOMAIN FileStore

\* The error for input v: the missing configuration or the file error
InputError(e, v) ==
    IF e[v] = "" THEN "Missing environment variable: " \o v
    ELSE "ENOENT: no such file " \o e[v]

\* Task t is called in this step and runs a build
BuildsNow(t) ==
    /\ CalledNow(t)
    /\ task'[t].op \in {"getAgent", "sign", "reload"}
    /\ task'[t].op = "reload" \/ state = NULL

\* C36: a call that runs a build while some of the three inputs cannot be read
\* fails in that run with the error of the first such input in the order
\* certificate, key, CA, a missing configuration or a file error as the case
\* may be, whatever is wrong with the inputs after it; it starts no build and
\* publishes nothing.
C36_FirstProblemInOrderReported ==
    [][\A t \in Tasks, i \in 1..3 :
          ( /\ BuildsNow(t)
            /\ Unreadable(env, InputOrder[i])
            /\ \A j \in 1..(i - 1) : ~Unreadable(env, InputOrder[j]) ) =>
              /\ task'[t].pc = "failed"
              /\ task'[t].err = InputError(env, InputOrder[i])
              /\ task'[t].build = 0
              /\ UNCHANGED <<state, builds, published, closed>>
      ]_vars

\* With no file at the certificate path and neither key nor CA configured a
\* call failed with the file error of the certificate; with the certificate
\* readable and neither key nor CA configured a call failed with the error that
\* names the key; nothing was published
C36_Witness ==
    \E t, u \in Tasks :
        /\ task[t].pc = "failed"
        /\ task[t].err = "ENOENT: no such file /nonexistent/cert.pem"
        /\ task[u].pc = "failed"
        /\ task[u].err = "Missing environment variable: MTLS_KEY_PATH"
        /\ env["MTLS_CERT_PATH"] = "/tmp/ec.crt"
        /\ env["MTLS_KEY_PATH"] = "" /\ env["MTLS_CA_PATH"] = ""
        /\ published = <<>> /\ state = NULL

EndpointError == "Missing environment variable: REVIEW_GRAPHQL_ENDPOINT"

\* C37: a send asks for its credentials before it resolves the client.  A send
\* started with no generation published and the credentials unreadable fails
\* with the error of a credential call, never with the endpoint error, also
\* with the endpoint not configured.  A send fails with the endpoint error only
\* with both credentials obtained: a generation is published then, the builds
\* its calls ran are published, it has made no request, and the client is and
\* stays not memoized; a send that resolves the client later reads the endpoint
\* configured then.
C37_CredentialsBeforeClient ==
    [][\A s \in Sends :
          /\ send'[s].pc # "free" => (send'[s].signTask \in Tasks /\ send'[s].agentTask \in Tasks)
          /\ (send[s].pc = "free" /\ send'[s].pc # "free" /\ state = NULL /\ ~BuildRead(env).ok) =>
                /\ send'[s].pc = "awaiting"
                /\ task'[send'[s].signTask].pc = "failed"
                /\ task'[send'[s].agentTask].pc = "failed"
                /\ task'[send'[s].signTask].err = BuildRead(env).err
          /\ (send[s].pc = "awaiting" /\ FailedCalls(s) # {} /\ send'[s] # send[s]) =>
                /\ send'[s].pc = "failed"
                /\ send'[s].err # EndpointError
                /\ \E t \in FailedCalls(s) : send'[s].err = task[t].err
          /\ (send[s].pc # "failed" /\ send'[s].pc = "failed" /\ send'[s].err = EndpointError) =>
                /\ task[send[s].signTask].pc = "done"
                /\ task[send[s].agentTask].pc = "done"
                /\ state # NULL /\ state' = state
                /\ \A t \in {send[s].signTask, send[s].agentTask} :
                      task[t].build # 0 => task[t].build \in Range(published)
                /\ send'[s].request = NULL /\ send'[s].fetches = 0
                /\ client = "" /\ client' = ""
          /\ (Resolves(s) /\ client = "") =>
                /\ send'[s].url = env["REVIEW_GRAPHQL_ENDPOINT"]
                /\ env["REVIEW_GRAPHQL_ENDPOINT"] # ""
      ]_vars

\* With the credentials readable and the endpoint not configured a first send
\* built and published a generation and failed with the endpoint error; the
\* endpoint was configured then and a second send has made its request to it
C37_Witness ==
    \E s, u \in Sends :
        /\ send[s].pc = "failed" /\ send[s].err = EndpointError
        /\ task[send[s].signTask].build \in Range(published)
        /\ state # NULL
        /\ send[u].pc = "done"
        /\ Before(send[s].signTask, send[u].signTask)
        /\ send[u].url = env["REVIEW_GRAPHQL_ENDPOINT"]
        /\ client = send[u].url

\* With neither the certificate path nor the endpoint configured a send failed
\* with the error that names the certificate path
C37_BothMissingReached ==
    \E s \in Sends :
        /\ env["MTLS_CERT_PATH"] = "" /\ env["REVIEW_GRAPHQL_ENDPOINT"] = ""
        /\ send[s].pc = "failed"
        /\ send[s].err = "Missing environment variable: MTLS_CERT_PATH"
        /\ state = NULL /\ client = ""

\* C38: the transport a reload() call returns is the transport of the
\* generation that this call built and published.
C38_ReloadReturnsOwnTransport ==
    \A r \in Tasks :
        (task[r].op = "reload" /\ task[r].pc = "done") =>
            /\ task[r].build \in Range(published)
            /\ task[r].result = BuiltState(task[r].build).agent

----------------------------------------------------------------------------

====
